---- MODULE Spec2Model ----
(***************************************************************************)
(* The Whisper worker supervisor (src/unnamed/part_000): one long-lived    *)
(* child process, a map of pending transcription requests multiplexed onto *)
(* its stdin/stdout, per-request timeouts, restart-on-exit with a          *)
(* rate-limited circuit breaker.                                            *)
(*                                                                         *)
(* The program is single-threaded and event-driven: every action below is  *)
(* one whole handler (an exported function called by the host, a stream or *)
(* process event, a timer callback) and runs atomically.                   *)
(*                                                                         *)
(* Time is kept relative to Date.now(): the restart ledger holds, for each *)
(* recorded attempt t, the age now - t (saturating at RESTART_WINDOW, the  *)
(* only value the code compares it with), and each armed timer holds the   *)
(* time left until it is due.  All times are in milliseconds.              *)
(***************************************************************************)
EXTENDS Integers, Sequences, FiniteSets, TLC

\* ---------------------------------------------------------------- constants
TRANSCRIBE_TIMEOUT == 120000
MAX_RESTART_ATTEMPTS == 5
RESTART_WINDOW == 60000
RESPAWN_DELAY == 2000

\* ------------------------------------------------------------------- bounds
\* Worker processes that exist at the same time (slots are reused after exit).
MaxProcs == 2
\* Calls of transcribe that get past the readiness test.
MaxRequests == 2
\* Respawn timers armed at the same time.
MaxRespawnTimers == 1

Slots == 1..MaxProcs
Ids == 1..MaxRequests
NoProc == 0

VARIABLES
    whisperProcess,   \* NoProc (null) or the slot of the ChildProcess held
    ready,
    pendingRequests,  \* the keys of the Map: identifiers with an entry
    timers,           \* armed request timers: identifier -> ms until due
    requestCounter,
    restartAttempts,  \* sequence of ages (now - t) of the recorded attempts
    circuitBroken,
    respawnTimers,    \* armed respawn timers, in arming order: ms until due
    procs,            \* slot -> the child process in it
    calls,            \* identifier -> how many terminal callbacks were invoked
    lastEvent,        \* the handler that ran last: the path it took, what
                      \* its spawnWhisper call did, the callbacks it invoked
    recentExits       \* ages of the worker exits of the last 5 * RESPAWN_DELAY,
                      \* the 5 latest at most (kept under SpecStorm only)

vars == <<whisperProcess, ready, pendingRequests, timers, requestCounter,
          restartAttempts, circuitBroken, respawnTimers, procs, calls,
          lastEvent, recentExits>>

Min(a, b) == IF a < b THEN a ELSE b
Max(a, b) == IF a > b THEN a ELSE b

\* A slot with no process, and a freshly spawned process.
NoChild == [alive |-> FALSE, killed |-> FALSE, sentReady |-> FALSE, stdin |-> {}]
NewChild == [alive |-> TRUE, killed |-> FALSE, sentReady |-> FALSE, stdin |-> {}]

\* The module-level state as one record, so that handlers can call each other.
State ==
    [whisperProcess |-> whisperProcess, ready |-> ready,
     pendingRequests |-> pendingRequests, timers |-> timers,
     requestCounter |-> requestCounter, restartAttempts |-> restartAttempts,
     circuitBroken |-> circuitBroken, respawnTimers |-> respawnTimers,
     procs |-> procs, calls |-> calls,
     spawn |-> "none", settled |-> {}, outcome |-> "none"]

CommitProgram(s, op) ==
    /\ whisperProcess' = s.whisperProcess
    /\ ready' = s.ready
    /\ pendingRequests' = s.pendingRequests
    /\ timers' = s.timers
    /\ requestCounter' = s.requestCounter
    /\ restartAttempts' = s.restartAttempts
    /\ circuitBroken' = s.circuitBroken
    /\ respawnTimers' = s.respawnTimers
    /\ procs' = s.procs
    /\ calls' = s.calls
    /\ lastEvent' = [op |-> op, spawn |-> s.spawn,
                     settled |-> s.settled, outcome |-> s.outcome]

Commit(s, op) == CommitProgram(s, op) /\ UNCHANGED recentExits

\* ------------------------------------------------------------ isWhisperReady
isWhisperReadyIn(s) ==
    s.ready /\ s.whisperProcess # NoProc /\ ~s.circuitBroken

isWhisperReady == isWhisperReadyIn(State)

\* ------------------------------------------------- setTimeout / clearTimeout
SetTimeoutNever(ts, id, ms) == ts
SetTimeout(ts, id, ms) ==
    [i \in (DOMAIN ts) \cup {id} |-> IF i = id THEN ms ELSE ts[i]]

\* A fired timer leaves the event loop.
Expire(ts, id) == [i \in (DOMAIN ts) \ {id} |-> ts[i]]

ClearTimeoutLeak(ts, ids) == ts
ClearTimeout(ts, ids) == [i \in (DOMAIN ts) \ ids |-> ts[i]]

\* ---------------------------------------------------------- rejectAllPending
\* clearTimeout and reject for every entry, then clear the map.
RejectAllKeepTimers(s, reason) ==
    [s EXCEPT
       !.calls = [i \in Ids |->
                    IF i \in s.pendingRequests
                    THEN s.calls[i] + 1 ELSE s.calls[i]],
       !.settled = s.pendingRequests,
       !.outcome = IF s.pendingRequests = {} THEN "none" ELSE reason,
       !.pendingRequests = {}]

RejectAllPending(s, reason) ==
    [s EXCEPT
       !.calls = [i \in Ids |->
                    IF i \in s.pendingRequests
                    THEN s.calls[i] + 1 ELSE s.calls[i]],
       !.settled = s.pendingRequests,
       !.outcome = IF s.pendingRequests = {} THEN "none" ELSE reason,
       !.timers = ClearTimeout(s.timers, s.pendingRequests),
       !.pendingRequests = {}]

\* -------------------------------------------------------------- spawnWhisper
FreeSlots(s) == {p \in Slots : ~s.procs[p].alive}
FreeSlot(s) == CHOOSE p \in FreeSlots(s) : \A q \in FreeSlots(s) : p <= q

\* restartAttempts.filter((t) => now - t < RESTART_WINDOW)
PrunedNothing(attempts) == attempts
Pruned(attempts) == SelectSeq(attempts, LAMBDA age : age < RESTART_WINDOW)

BreakerTripsLate(attempts) == Len(attempts) > MAX_RESTART_ATTEMPTS
BreakerTrips(attempts) == Len(attempts) >= MAX_RESTART_ATTEMPTS

\* Lines 85-102: record the attempt, clear the ready flag, spawn, keep the handle.
Launch(s, kept) ==
    LET p == FreeSlot(s) IN
    [s EXCEPT !.restartAttempts = Append(kept, 0),
              !.ready = FALSE,
              !.whisperProcess = p,
              !.procs[p] = NewChild,
              !.spawn = "spawned"]

\* The breaker opens but the function goes on to spawn (no return at line 83).
SpawnWhisperNoReturn(s) ==
    IF s.circuitBroken
    THEN [s EXCEPT !.spawn = "refused"]
    ELSE LET kept == Pruned(s.restartAttempts) IN
         IF BreakerTrips(kept)
         THEN IF FreeSlots(s) # {}
              THEN Launch([s EXCEPT !.circuitBroken = TRUE], kept)
              ELSE [s EXCEPT !.restartAttempts = kept,
                             !.circuitBroken = TRUE,
                             !.spawn = "tripped"]
         ELSE Launch(s, kept)

SpawnWhisper(s) ==
    IF s.circuitBroken
    THEN [s EXCEPT !.spawn = "refused"]
    ELSE LET kept == Pruned(s.restartAttempts) IN
         IF BreakerTrips(kept)
         THEN [s EXCEPT !.restartAttempts = kept,
                        !.circuitBroken = TRUE,
                        !.spawn = "tripped"]
         ELSE Launch(s, kept)

\* The spawn needs a slot: a handler that would spawn runs only when one is free.
HasRoom(s) ==
    \/ s.circuitBroken
    \/ BreakerTrips(Pruned(s.restartAttempts))
    \/ FreeSlots(s) # {}

\* ------------------------------------------------------------------- Init
Init ==
    /\ whisperProcess = NoProc
    /\ ready = FALSE
    /\ pendingRequests = {}
    /\ timers = << >>
    /\ requestCounter = 0
    /\ restartAttempts = << >>
    /\ circuitBroken = FALSE
    /\ respawnTimers = << >>
    /\ procs = [p \in Slots |-> NoChild]
    /\ calls = [i \in Ids |-> 0]
    /\ lastEvent = [op |-> "init", spawn |-> "none",
                    settled |-> {}, outcome |-> "none"]
    /\ recentExits = << >>

\* ----------------------------------------------------------- startWhisper
StartWhisperIn(s) == SpawnWhisper(s)

StartWhisper ==
    /\ HasRoom(State)
    /\ Commit(StartWhisperIn(State), "start")

\* ------------------------------------------------------------ stopWhisper
StopWhisperKeepBreaker(s) ==
    LET s1 == [s EXCEPT !.ready = FALSE]
        s2 == RejectAllPending(s1, "stopping")
    IN  IF s2.whisperProcess # NoProc
        THEN [s2 EXCEPT !.procs[s2.whisperProcess].killed = TRUE,
                        !.whisperProcess = NoProc]
        ELSE s2

StopWhisperKeepEntries(s) ==
    LET s1 == [s EXCEPT !.ready = FALSE, !.circuitBroken = TRUE]
        s2 == [RejectAllPending(s1, "stopping") EXCEPT
                 !.pendingRequests = s.pendingRequests]
    IN  IF s2.whisperProcess # NoProc
        THEN [s2 EXCEPT !.procs[s2.whisperProcess].killed = TRUE,
                        !.whisperProcess = NoProc]
        ELSE s2

StopWhisperIn(s) ==
    LET s1 == [s EXCEPT !.ready = FALSE, !.circuitBroken = TRUE]
        s2 == RejectAllPending(s1, "stopping")
    IN  IF s2.whisperProcess # NoProc
        THEN [s2 EXCEPT !.procs[s2.whisperProcess].killed = TRUE,
                        !.whisperProcess = NoProc]
        ELSE s2

StopWhisper ==
    /\ TRUE
    /\ Commit(StopWhisperIn(State), "stop")

\* -------------------------------------------------------------- transcribe
NotReady(s) == ~s.ready \/ s.whisperProcess = NoProc \/ s.circuitBroken

TranscribeCountFirst(s) ==
    IF NotReady(s)
    THEN [s EXCEPT !.requestCounter = s.requestCounter + 1,
                   !.outcome = "notReady"]
    ELSE LET id == s.requestCounter + 1 IN
         [s EXCEPT !.requestCounter = id,
                   !.timers = SetTimeout(s.timers, id, TRANSCRIBE_TIMEOUT),
                   !.pendingRequests = s.pendingRequests \cup {id},
                   !.procs[s.whisperProcess].stdin =
                       s.procs[s.whisperProcess].stdin \cup {id}]

TranscribeIn(s) ==
    IF NotReady(s)
    THEN [s EXCEPT !.outcome = "notReady"]
    ELSE LET id == s.requestCounter + 1 IN
         [s EXCEPT !.requestCounter = id,
                   !.timers = SetTimeout(s.timers, id, TRANSCRIBE_TIMEOUT),
                   !.pendingRequests = s.pendingRequests \cup {id},
                   !.procs[s.whisperProcess].stdin =
                       s.procs[s.whisperProcess].stdin \cup {id}]

Transcribe ==
    /\ NotReady(State) \/ requestCounter < MaxRequests
    /\ Commit(TranscribeIn(State),
              IF NotReady(State) THEN "transcribe:notReady" ELSE "transcribe")

\* The timeout callback of one request: delete the entry, reject.
TimeoutDropsWorker(s, id) ==
    [s EXCEPT !.pendingRequests = s.pendingRequests \ {id},
              !.timers = Expire(s.timers, id),
              !.calls[id] = s.calls[id] + 1,
              !.settled = {id},
              !.outcome = "timeout",
              !.ready = FALSE]

TimeoutIn(s, id) ==
    [s EXCEPT !.pendingRequests = s.pendingRequests \ {id},
              !.timers = Expire(s.timers, id),
              !.calls[id] = s.calls[id] + 1,
              !.settled = {id},
              !.outcome = "timeout"]

TimeoutFire(id) ==
    /\ id \in DOMAIN timers
    /\ timers[id] = 0
    /\ Commit(TimeoutIn(State, id), "timeout")

\* ------------------------------------------------- the stdout line handler
\* A line of the worker's stdout: text JSON.parse rejects, or an object with
\* the fields the handler reads (ready, id, error; id 0 is an absent id).
Unparseable == [json |-> FALSE, ready |-> FALSE, id |-> 0, error |-> FALSE]
Lines ==
    {Unparseable} \cup
    [json : {TRUE}, ready : BOOLEAN, id : 0..MaxRequests, error : BOOLEAN]

\* pendingRequests.get(id)
LookupStale(s, id) == id <= s.requestCounter
Lookup(s, id) == id \in s.pendingRequests

LinePath(s, line) ==
    IF ~line.json THEN "line:unparseable"
    ELSE IF line.ready THEN "line:ready"
    ELSE IF line.id = 0 THEN "line:noId"
    ELSE IF ~Lookup(s, line.id) THEN "line:unknownId"
    ELSE IF line.error THEN "line:error"
    ELSE "line:text"

StdoutLineIdFirst(s, p, line) ==
    IF ~line.json THEN s
    ELSE IF line.id # 0 /\ Lookup(s, line.id)
    THEN [s EXCEPT
            !.pendingRequests = s.pendingRequests \ {line.id},
            !.timers = ClearTimeout(s.timers, {line.id}),
            !.calls[line.id] = s.calls[line.id] + 1,
            !.settled = {line.id},
            !.outcome = IF line.error THEN "workerError" ELSE "resolved"]
    ELSE IF line.ready
    THEN [s EXCEPT !.ready = TRUE,
                   !.restartAttempts = << >>,
                   !.procs[p].sentReady = TRUE]
    ELSE s

StdoutLineKeepLedger(s, p, line) ==
    IF ~line.json THEN s
    ELSE IF line.ready
    THEN [s EXCEPT !.ready = TRUE,
                   !.procs[p].sentReady = TRUE]
    ELSE IF line.id = 0 THEN s
    ELSE IF ~Lookup(s, line.id) THEN s
    ELSE [s EXCEPT
            !.pendingRequests = s.pendingRequests \ {line.id},
            !.timers = ClearTimeout(s.timers, {line.id}),
            !.calls[line.id] = s.calls[line.id] + 1,
            !.settled = {line.id},
            !.outcome = IF line.error THEN "workerError" ELSE "resolved"]

StdoutLineIn(s, p, line) ==
    IF ~line.json THEN s
    ELSE IF line.ready
    THEN [s EXCEPT !.ready = TRUE,
                   !.restartAttempts = << >>,
                   !.procs[p].sentReady = TRUE]
    ELSE IF line.id = 0 THEN s
    ELSE IF ~Lookup(s, line.id) THEN s
    ELSE [s EXCEPT
            !.pendingRequests = s.pendingRequests \ {line.id},
            !.timers = ClearTimeout(s.timers, {line.id}),
            !.calls[line.id] = s.calls[line.id] + 1,
            !.settled = {line.id},
            !.outcome = IF line.error THEN "workerError" ELSE "resolved"]

StdoutLine(p, line) ==
    /\ procs[p].alive
    /\ Commit(StdoutLineIn(State, p, line), LinePath(State, line))

\* -------------------------------------------------- proc.on('error', ...)
ProcErrorSpawnFirst(s, p) ==
    LET s1 == SpawnWhisper(s)
        s2 == [s1 EXCEPT !.ready = FALSE, !.whisperProcess = NoProc]
    IN  [RejectAllPending(s2, "processError") EXCEPT !.spawn = s1.spawn]

ProcErrorIn(s, p) ==
    LET s1 == [s EXCEPT !.ready = FALSE, !.whisperProcess = NoProc]
        s2 == RejectAllPending(s1, "processError")
    IN  SpawnWhisper(s2)

ProcError(p) ==
    /\ procs[p].alive
    /\ HasRoom(State)
    /\ Commit(ProcErrorIn(State, p), "error")

\* --------------------------------------------------- proc.on('exit', ...)
ExitSchedules(s) == ~s.circuitBroken

ProcExitIn(s, p) ==
    LET s1 == [s EXCEPT !.ready = FALSE, !.whisperProcess = NoProc,
                        !.procs[p] = NoChild]
        s2 == RejectAllPending(s1, "exited")
    IN  IF ExitSchedules(s2)
        THEN [s2 EXCEPT !.respawnTimers = Append(s2.respawnTimers, RESPAWN_DELAY)]
        ELSE s2

ExitEvent(p) ==
    /\ procs[p].alive
    /\ circuitBroken \/ Len(respawnTimers) < MaxRespawnTimers
    /\ CommitProgram(ProcExitIn(State, p), "exit")

ProcExit(p) == ExitEvent(p) /\ UNCHANGED recentExits

\* The respawn timer's callback: () => spawnWhisper()
RespawnIn(s) == SpawnWhisper([s EXCEPT !.respawnTimers = Tail(s.respawnTimers)])

RespawnFire ==
    /\ respawnTimers # << >>
    /\ Head(respawnTimers) = 0
    /\ HasRoom(State)
    /\ Commit(RespawnIn(State), "respawn")

\* ------------------------------------------------------------------ time
TickSteps == {RESPAWN_DELAY, RESTART_WINDOW}

Elapse(s, d) ==
    [s EXCEPT
       !.restartAttempts = [k \in DOMAIN s.restartAttempts |->
                              Min(s.restartAttempts[k] + d, RESTART_WINDOW)],
       !.timers = [i \in DOMAIN s.timers |-> Max(s.timers[i] - d, 0)],
       !.respawnTimers = [k \in DOMAIN s.respawnTimers |->
                            Max(s.respawnTimers[k] - d, 0)]]

\* The clock advances by RESPAWN_DELAY while a respawn timer is waiting for
\* it, and by RESTART_WINDOW at any time.  Timers fire when due or later.
Advance(d) ==
    /\ d = RESPAWN_DELAY => \E k \in DOMAIN respawnTimers : respawnTimers[k] > 0
    /\ LET s == Elapse(State, d) IN
       /\ restartAttempts' = s.restartAttempts
       /\ timers' = s.timers
       /\ respawnTimers' = s.respawnTimers
    /\ UNCHANGED <<whisperProcess, ready, pendingRequests, requestCounter,
                   circuitBroken, procs, calls, lastEvent>>

Tick(d) == Advance(d) /\ UNCHANGED recentExits

\* ------------------------------------------------------------------ Next
Next ==
    \/ StartWhisper
    \/ StopWhisper
    \/ Transcribe
    \/ \E id \in Ids : TimeoutFire(id)
    \/ \E p \in Slots, line \in Lines : StdoutLine(p, line)
    \/ \E p \in Slots : ProcError(p)
    \/ \E p \in Slots : ProcExit(p)
    \/ RespawnFire
    \/ \E d \in TickSteps : Tick(d)

Spec == Init /\ [][Next]_vars

\* The same program and environment, with the record of recent worker exits
\* kept: an exit is noted with age 0, the clock ages the record and drops
\* what is older than StormSpan.
StormSpan == 5 * RESPAWN_DELAY

LastFive(seq) == IF Len(seq) > 5 THEN SubSeq(seq, Len(seq) - 4, Len(seq)) ELSE seq

NoteExit(exits) == LastFive(Append(exits, 0))

AgeExits(exits, d) ==
    LET aged == [k \in DOMAIN exits |-> exits[k] + d]
    IN  SelectSeq(aged, LAMBDA age : age <= StormSpan)

ProcExitNoted(p) == ExitEvent(p) /\ recentExits' = NoteExit(recentExits)

TickNoted(d) == Advance(d) /\ recentExits' = AgeExits(recentExits, d)

NextStorm ==
    \/ StartWhisper
    \/ StopWhisper
    \/ Transcribe
    \/ \E id \in Ids : TimeoutFire(id)
    \/ \E p \in Slots, line \in Lines : StdoutLine(p, line)
    \/ \E p \in Slots : ProcError(p)
    \/ \E p \in Slots : ProcExitNoted(p)
    \/ RespawnFire
    \/ \E d \in TickSteps : TickNoted(d)

SpecStorm == Init /\ [][NextStorm]_vars

\* Timers: the clock keeps advancing, and a request timer that is due and
\* still armed is eventually run by the event loop.  Nothing is assumed of the
\* worker or of the host's calls.
TimersFire ==
    /\ WF_vars(Tick(RESTART_WINDOW))
    /\ \A id \in Ids : WF_vars(TimeoutFire(id))

SpecLive == Init /\ [][Next]_vars /\ TimersFire

\* The program's own state: everything but the record of the last handler.
progVars == <<whisperProcess, ready, pendingRequests, timers, requestCounter,
              restartAttempts, circuitBroken, respawnTimers, procs, calls>>

\* ====================================================================
\* Properties
\* ====================================================================

\* C1: for every request registered by transcribe at most one terminal
\* callback (resolve or reject) is ever invoked, whatever the interleaving of
\* response lines, timeouts, worker exits, worker errors and stop(): a
\* request still in the map has had none, and no request ever has two.
C1_AtMostOneCallback ==
    \A i \in Ids :
        /\ calls[i] <= 1
        /\ (i \in pendingRequests => calls[i] = 0)
        /\ (i > requestCounter => calls[i] = 0 /\ i \notin pendingRequests)

\* Both requests have been terminated, and handlers that reject in bulk
\* (here the worker's exit) ran afterwards and found nothing to reject.
C1_Witness ==
    /\ \A i \in Ids : calls[i] = 1
    /\ lastEvent.op = "exit"
    /\ lastEvent.settled = {}

\* C2: every request registered by transcribe is eventually terminated:
\* provided armed timers eventually fire, each pending entry eventually
\* leaves the map with its caller called back (exactly once, by C1), whether
\* the worker answers, stays silent, exits or errors, and whether or not
\* stop() is called.
C2_EventuallyTerminated ==
    \A i \in Ids :
        (i \in pendingRequests) ~> (i \notin pendingRequests /\ calls[i] = 1)

\* A request the worker never answered has been terminated by its timeout
\* while the worker is still running and held.
C2_Witness ==
    /\ lastEvent.op = "timeout"
    /\ lastEvent.settled = {1}
    /\ calls[1] = 1
    /\ whisperProcess # NoProc
    /\ procs[whisperProcess].alive

\* C3: transcribe called when the supervisor is not ready rejects at once and
\* changes no state: no identifier is allocated, no entry registered, no timer
\* armed, nothing written to a worker's stdin.
C3_NotReadyChangesNothing ==
    [][(NotReady(State) /\ Transcribe) =>
          /\ UNCHANGED progVars
          /\ lastEvent'.outcome = "notReady"
          /\ lastEvent'.settled = {}]_vars

\* transcribe was refused although the ready flag is set and a worker is
\* held: the breaker alone made the supervisor not ready.
C3_Witness ==
    /\ lastEvent.op = "transcribe:notReady"
    /\ ready /\ whisperProcess # NoProc /\ circuitBroken

\* Spawn attempts: the handlers that call spawnWhisper.
SpawnCall == StartWhisper \/ (\E p \in Slots : ProcError(p)) \/ RespawnFire

\* Attempts recorded since the last readiness signal and less than
\* RESTART_WINDOW old.
FreshAttempts ==
    Cardinality({k \in DOMAIN restartAttempts : restartAttempts[k] < RESTART_WINDOW})

SpawnsNothing == \A p \in Slots : procs'[p].alive => procs[p].alive

\* C4 (as amended): with the breaker closed, a spawn attempt that finds 5
\* attempts recorded within the last 60 seconds (no readiness signal since)
\* is the one that trips the breaker and spawns nothing: that is the 6th
\* attempt of the span.  Every attempt that finds fewer, the 5th included,
\* spawns a worker and is recorded.
C4_SixthAttemptTrips ==
    [][(SpawnCall /\ ~circuitBroken) =>
          /\ FreshAttempts <= 5
          /\ FreshAttempts = 5 =>
                /\ circuitBroken'
                /\ lastEvent'.spawn = "tripped"
                /\ SpawnsNothing
          /\ FreshAttempts < 5 =>
                /\ ~circuitBroken'
                /\ lastEvent'.spawn = "spawned"
                /\ whisperProcess' # NoProc
                /\ ~procs[whisperProcess'].alive
                /\ procs'[whisperProcess'] = NewChild
                /\ Len(restartAttempts') = FreshAttempts + 1]_vars

\* The breaker has just tripped with 5 attempts on the ledger, all of them
\* less than 60 seconds old.
C4_Witness ==
    /\ lastEvent.spawn = "tripped"
    /\ circuitBroken
    /\ Len(restartAttempts) = 5
    /\ FreshAttempts = 5

\* C4 as claimed: the 5th attempt of the span (4 already recorded) trips the
\* breaker and spawns nothing.
C4_FifthAttemptTrips ==
    [][(SpawnCall /\ ~circuitBroken /\ FreshAttempts = 4) =>
          (circuitBroken' /\ SpawnsNothing)]_vars

\* C5 as claimed: once the restart limit has opened the breaker, an explicit
\* start() closes it again and spawns a worker.
C5_StartLeavesCircuitBroken ==
    [][(StartWhisper /\ circuitBroken /\ lastEvent.spawn = "tripped"
          /\ FreeSlots(State) # {}) =>
          (~circuitBroken' /\ lastEvent'.spawn = "spawned")]_vars

\* C6 as claimed: a start() that follows stop() spawns a new worker.
C6_StartAfterStopSpawns ==
    [][(StartWhisper /\ lastEvent.op = "stop" /\ FreeSlots(State) # {}) =>
          (lastEvent'.spawn = "spawned" /\ whisperProcess' # NoProc)]_vars

\* C7: stop() opens the breaker and drops the worker handle; from then on no
\* handler spawns a process, the handle stays absent and isWhisperReady()
\* stays false, so a respawn timer that was pending when stop() ran fires
\* without producing a worker.
C7_StopBlocksPendingRespawn ==
    [][/\ StopWhisper => (circuitBroken' /\ whisperProcess' = NoProc)
       /\ (circuitBroken /\ whisperProcess = NoProc) =>
             /\ circuitBroken'
             /\ whisperProcess' = NoProc
             /\ ~isWhisperReady'
             /\ SpawnsNothing
       /\ (RespawnFire /\ circuitBroken) => lastEvent'.spawn = "refused"]_vars

\* A respawn timer has fired into a breaker that only stop() can have opened
\* (one attempt on the ledger: the limit was never reached).
C7_Witness ==
    /\ lastEvent.op = "respawn"
    /\ lastEvent.spawn = "refused"
    /\ Len(restartAttempts) = 1
    /\ whisperProcess = NoProc

\* C8: stop() rejects every pending request with the shutdown reason, cancels
\* their timers, leaves the map empty, sends the held worker SIGTERM and
\* leaves isWhisperReady() false; the exit of a killed worker schedules no
\* respawn and spawns nothing.
C8_StopRejectsAll ==
    [][/\ StopWhisper =>
             /\ pendingRequests' = {}
             /\ \A i \in pendingRequests : i \notin DOMAIN timers'
             /\ \A i \in Ids :
                   calls'[i] = calls[i] + (IF i \in pendingRequests THEN 1 ELSE 0)
             /\ lastEvent'.settled = pendingRequests
             /\ pendingRequests # {} => lastEvent'.outcome = "stopping"
             /\ whisperProcess # NoProc => procs'[whisperProcess].killed
             /\ ~isWhisperReady'
       /\ \A p \in Slots : (ProcExit(p) /\ procs[p].killed) =>
             /\ respawnTimers' = respawnTimers
             /\ SpawnsNothing]_vars

\* stop() has just rejected two pending requests and killed the worker.
C8_Witness ==
    /\ lastEvent.op = "stop"
    /\ lastEvent.settled = {1, 2}
    /\ lastEvent.outcome = "stopping"
    /\ \E p \in Slots : procs[p].killed

\* The worker has exited 5 times within the last 10 seconds.
FiveExitsInTenSeconds == Len(recentExits) = 5

\* C9 (as amended): when the worker has exited 5 times within 10 seconds and
\* the respawn that follows the 5th exit finds 5 spawn attempts of the last 60
\* seconds on the ledger (no readiness signal has emptied it since), or finds
\* the breaker already open, that respawn is suppressed: no worker is
\* spawned, the breaker is open and isWhisperReady() is false.  From then on
\* the breaker stays open, nothing is spawned, isWhisperReady() stays false
\* and every transcribe call is refused without any effect.
C9_StormTripsBreaker ==
    [][/\ (/\ RespawnFire
           /\ FiveExitsInTenSeconds
           /\ circuitBroken \/ FreshAttempts = 5) =>
             /\ SpawnsNothing
             /\ circuitBroken'
             /\ ~isWhisperReady'
             /\ lastEvent'.spawn = (IF circuitBroken THEN "refused" ELSE "tripped")
       /\ circuitBroken =>
             /\ circuitBroken'
             /\ SpawnsNothing
             /\ ~isWhisperReady'
       /\ (Transcribe /\ circuitBroken) =>
             /\ UNCHANGED progVars
             /\ lastEvent'.outcome = "notReady"]_vars

\* The respawn after the 5th exit in 10 seconds has just tripped the breaker.
C9_Witness ==
    /\ lastEvent.op = "respawn"
    /\ lastEvent.spawn = "tripped"
    /\ FiveExitsInTenSeconds
    /\ circuitBroken
    /\ ~isWhisperReady

\* C9 as claimed: in any run where the worker exits 5 times within 10
\* seconds, the respawn attempt that follows the 5th exit spawns nothing and
\* leaves the breaker open.
C9_FifthExitRespawnSuppressed ==
    [][(RespawnFire /\ FiveExitsInTenSeconds) =>
          (SpawnsNothing /\ circuitBroken' /\ ~isWhisperReady')]_vars

\* C10: a response line whose identifier has no pending entry (never
\* registered, or already resolved, failed or timed out) is ignored: no
\* callback is invoked and nothing of the program's state changes.
C10_UnknownIdIgnored ==
    [][\A p \in Slots, line \in Lines :
          (/\ line.json /\ ~line.ready /\ line.id # 0
           /\ line.id \notin pendingRequests
           /\ StdoutLine(p, line)) =>
          /\ UNCHANGED progVars
          /\ lastEvent'.settled = {}
          /\ lastEvent'.outcome = "none"]_vars

\* A response for request 1 arrived after request 1 was terminated, while
\* request 2 was still pending with its timer armed.
C10_Witness ==
    /\ lastEvent.op = "line:unknownId"
    /\ calls[1] = 1
    /\ pendingRequests = {2}
    /\ 2 \in DOMAIN timers

\* A readiness line handled by the stdout handler of worker p.
ReadyLine(p, line) == line.json /\ line.ready /\ StdoutLine(p, line)

\* C11: every readiness signal received from a worker sets the ready flag and
\* empties the restart ledger, whatever the ledger held and touching nothing
\* else; the attempts made before it do not count afterwards: the spawn
\* attempt that follows a readiness signal (breaker closed) always spawns a
\* worker and leaves exactly one attempt on the ledger.
C11_ReadyEmptiesLedger ==
    [][/\ \A p \in Slots, line \in Lines :
             ReadyLine(p, line) =>
                /\ ready'
                /\ restartAttempts' = << >>
                /\ UNCHANGED <<whisperProcess, pendingRequests, timers,
                               requestCounter, circuitBroken, respawnTimers,
                               calls>>
                /\ lastEvent'.settled = {}
       /\ (SpawnCall /\ ~circuitBroken /\ lastEvent.op = "line:ready") =>
             /\ lastEvent'.spawn = "spawned"
             /\ ~circuitBroken'
             /\ restartAttempts' = <<0>>]_vars

\* A readiness line has just been handled with the breaker closed: the flag
\* is set, the ledger is empty although the worker held was spawned by a
\* recorded attempt, and that worker is the one that signalled.
C11_Witness ==
    /\ lastEvent.op = "line:ready"
    /\ ready
    /\ restartAttempts = << >>
    /\ ~circuitBroken
    /\ whisperProcess # NoProc
    /\ procs[whisperProcess].sentReady

\* C12: at each breaker check (a spawn attempt with the breaker closed) every
\* attempt kept on the ledger is less than RESTART_WINDOW old, and the check
\* opens the breaker only when 5 attempts of the last 60 seconds are on the
\* ledger: an attempt that finds fewer never opens it, however many older
\* attempts the ledger held.
C12_OnlyFreshAttemptsCount ==
    [][(SpawnCall /\ ~circuitBroken) =>
          /\ \A k \in DOMAIN restartAttempts' :
                restartAttempts'[k] < RESTART_WINDOW
          /\ Len(restartAttempts') <= MAX_RESTART_ATTEMPTS
          /\ circuitBroken' => FreshAttempts = MAX_RESTART_ATTEMPTS
          /\ FreshAttempts < MAX_RESTART_ATTEMPTS =>
                /\ ~circuitBroken'
                /\ Len(restartAttempts') = FreshAttempts + 1]_vars

\* Five attempts were recorded, each spawning a worker, and 60 seconds have
\* passed since: the ledger still holds the 5 entries, all of them out of the
\* window, and the breaker is closed for the attempt to come.
C12_Witness ==
    /\ lastEvent.spawn = "spawned"
    /\ ~circuitBroken
    /\ Len(restartAttempts) = MAX_RESTART_ATTEMPTS
    /\ FreshAttempts = 0

\* C13 as claimed: whenever isWhisperReady() is true the worker held in the
\* handle is running and has itself emitted a readiness line since it was
\* spawned; a readiness line of an earlier worker never makes a newer worker
\* that has not signalled accept requests.
C13_HeldWorkerSignalledReady ==
    isWhisperReady =>
        /\ procs[whisperProcess].alive
        /\ procs[whisperProcess].sentReady

\* What the bulk rejection of a fault handler leaves: every request that was
\* pending has been called back once with the handler's reason, its timer is
\* cancelled, the map is empty and the ready flag is false.
FaultRejectsAll(reason) ==
    /\ pendingRequests' = {}
    /\ \A i \in pendingRequests : i \notin DOMAIN timers'
    /\ \A i \in Ids :
          calls'[i] = calls[i] + (IF i \in pendingRequests THEN 1 ELSE 0)
    /\ lastEvent'.settled = pendingRequests
    /\ pendingRequests # {} => lastEvent'.outcome = reason
    /\ ~ready'

\* C14: every worker exit event and every worker error event rejects all the
\* requests pending at that moment with the handler's process-fault reason,
\* cancels their timers, empties the map, clears the ready flag and drops the
\* worker handle, before any respawn is acted on: after an exit the handle is
\* absent (the respawn is only scheduled), and after an error the handle is
\* absent unless the handler's respawn spawned, in which case it is the new
\* worker, which has been written nothing.
C14_FaultRejectsAllThenCleans ==
    [][\A p \in Slots :
         /\ ProcExit(p) =>
               /\ FaultRejectsAll("exited")
               /\ whisperProcess' = NoProc
               /\ SpawnsNothing
         /\ ProcError(p) =>
               /\ FaultRejectsAll("processError")
               /\ IF lastEvent'.spawn = "spawned"
                  THEN /\ whisperProcess' # NoProc
                       /\ ~procs[whisperProcess'].alive
                       /\ procs'[whisperProcess'] = NewChild
                  ELSE /\ whisperProcess' = NoProc
                       /\ SpawnsNothing]_vars

\* An error event has just rejected two pending requests and respawned.
C14_Witness ==
    /\ lastEvent.op = "error"
    /\ lastEvent.settled = {1, 2}
    /\ lastEvent.outcome = "processError"
    /\ lastEvent.spawn = "spawned"
    /\ pendingRequests = {}
    /\ whisperProcess # NoProc

\* C15 as claimed: a worker failure (error event or exit event) never respawns
\* inside its handler; with the breaker closed it arms the one respawn of the
\* failure, 2 seconds ahead, and with the breaker open it arms none.
C15_FailureNeverRespawnsAtOnce ==
    [][\A p \in Slots :
         (ProcError(p) \/ ProcExit(p)) =>
            /\ SpawnsNothing
            /\ lastEvent'.spawn = "none"
            /\ circuitBroken => respawnTimers' = respawnTimers
            /\ ~circuitBroken =>
                  Len(respawnTimers') <= Len(respawnTimers) + 1]_vars

Alive == {p \in Slots : procs[p].alive}

\* C16 as claimed: at most one worker process is alive at any time.
C16_AtMostOneWorkerAlive == Cardinality(Alive) <= 1

\* What failing one entry leaves: that request has been called back once more,
\* its entry and timer are gone, every other entry, timer and callback count
\* is as before, and the worker handle, the ready flag, the ledger, the
\* breaker, the respawn timers, the identifier counter and every worker
\* process are untouched.
FailsOnly(id, reason) ==
    /\ pendingRequests' = pendingRequests \ {id}
    /\ DOMAIN timers' = (DOMAIN timers) \ {id}
    /\ \A i \in DOMAIN timers' : timers'[i] = timers[i]
    /\ \A i \in Ids : calls'[i] = calls[i] + (IF i = id THEN 1 ELSE 0)
    /\ lastEvent'.settled = {id}
    /\ lastEvent'.outcome = reason
    /\ lastEvent'.spawn = "none"
    /\ UNCHANGED <<whisperProcess, ready, restartAttempts, circuitBroken,
                   respawnTimers, requestCounter, procs>>

\* C17: a request timeout and a worker-reported error each fail only the
\* pending entry concerned and leave everything else unchanged: the worker
\* keeps running, the handle, ready flag, ledger and breaker are untouched,
\* no respawn is scheduled, and the other entries and their timers remain.
C17_SingleFailureTouchesNothingElse ==
    [][/\ \A id \in Ids : TimeoutFire(id) => FailsOnly(id, "timeout")
       /\ \A p \in Slots, line \in Lines :
             (/\ line.json /\ ~line.ready /\ line.error
              /\ line.id \in pendingRequests
              /\ StdoutLine(p, line)) => FailsOnly(line.id, "workerError")]_vars

\* The worker has just reported an error for request 1 while request 2 is
\* pending with its timer armed; the worker is still held, running and ready.
C17_Witness ==
    /\ lastEvent.op = "line:error"
    /\ lastEvent.settled = {1}
    /\ pendingRequests = {2}
    /\ 2 \in DOMAIN timers
    /\ isWhisperReady
    /\ procs[whisperProcess].alive

\* C18: in every reachable state the armed request timers are exactly the
\* entries of the pending map: no entry is without an armed timer and no
\* timer is armed (so none can fire) for an identifier without an entry.
C18_TimersMatchEntries ==
    /\ DOMAIN timers = pendingRequests
    /\ \A id \in Ids : ENABLED TimeoutFire(id) => id \in pendingRequests

\* The timer of request 1 has fired and removed its own entry, while request 2
\* is pending with its timer armed and not yet due.
C18_Witness ==
    /\ lastEvent.op = "timeout"
    /\ lastEvent.settled = {1}
    /\ pendingRequests = {2}
    /\ DOMAIN timers = {2}
    /\ timers[2] > 0

\* C19: a decoded line with a truthy ready field is only a readiness signal,
\* also when it carries the identifier of a pending entry (and an error
\* field or not): it sets the ready flag and empties the ledger, and it
\* resolves, rejects and removes no entry and cancels no timer.
C19_ReadyLineWithIdOnlySignals ==
    [][\A p \in Slots, line \in Lines :
          (line.id \in pendingRequests /\ ReadyLine(p, line)) =>
             /\ ready'
             /\ restartAttempts' = << >>
             /\ lastEvent'.op = "line:ready"
             /\ lastEvent'.settled = {}
             /\ lastEvent'.outcome = "none"
             /\ UNCHANGED <<pendingRequests, timers, calls>>]_vars

\* A readiness line has just been handled while both requests are pending
\* (the line set includes readiness lines carrying either identifier): no
\* request has been called back.
C19_Witness ==
    /\ lastEvent.op = "line:ready"
    /\ pendingRequests = {1, 2}
    /\ DOMAIN timers = {1, 2}
    /\ calls[1] = 0 /\ calls[2] = 0

\* C20 as claimed: an exit or error event of a worker other than the one held
\* rejects only requests that were written to that worker's stdin and leaves
\* the handle of the worker held in place.
C20_SupersededWorkerEventIsLocal ==
    [][\A p \in Slots :
         (/\ whisperProcess # NoProc /\ p # whisperProcess
          /\ ProcExit(p) \/ ProcError(p)) =>
            /\ lastEvent'.settled \subseteq procs[p].stdin
            /\ whisperProcess' = whisperProcess]_vars

====
